---- MODULE Spec2Model ----
(***************************************************************************)
(* Model of RegisterAllocatorMinimal (src/lib/RegisterAllocator.cpp): the  *)
(* initial enqueue pass and the dequeue loop of runOnMachineFunction, and  *)
(* selectOrSplit with its allocation-order construction and interference   *)
(* scan.  The collaborators the pass only calls (MachineRegisterInfo,      *)
(* LiveIntervals, TargetRegisterInfo hints, LiveRegMatrix) answer with     *)
(* values drawn from small sets at the moment of the call.                 *)
(***************************************************************************)
EXTENDS Integers, Sequences, FiniteSets

\* ---------------------------------------------------------------- bounds
NumVirtRegs == 2     \* MRI->getNumVirtRegs()
MaxPoint    == 2     \* slot indexes 1..MaxPoint
MaxHints    == 1     \* longest hint list a target returns

\* ------------------------------------------------------- register file
\* The register file of the comment at lines 86-97: AL (1) and AH (2) are
\* one register unit each, AX (3) contains both.
RegUnits == <<{1}, {2}, {1, 2}>>

PhysRegs == DOMAIN RegUnits

Units == UNION {RegUnits[p] : p \in PhysRegs}

\* MCRegister 0: "no register", the value selectOrSplit returns at line 224.
NoRegister == 0

\* The target's allocation order of the (single) register class.
ClassOrder == <<1, 2, 3>>

VirtRegs == 0 .. (NumVirtRegs - 1)

Points == 1 .. MaxPoint

\* LI->weight(): the spill weights of the intervals, never read by the pass.
\* The two weights of the worked scenario, heavier first or lighter first.
SpillWeights ==
    {[v \in VirtRegs |-> IF v % 2 = 0 THEN 10 ELSE 1],
     [v \in VirtRegs |-> IF v % 2 = 0 THEN 1 ELSE 10]}

\* dequeue() returned nullptr / no live interval is being processed.
NoLI == -1

VARIABLES
    pc,             \* position in runOnMachineFunction
    virtualRegIdx,  \* loop index of the initial pass (line 287)
    LIQ,            \* std::queue<LiveInterval *> LIQ
    LI,             \* the interval the loop body works on (line 302)
    PhysReg,        \* result of selectOrSplit (line 318)
    reserved,       \* MRI->freezeReservedRegs(): frozen reserved set
    fixed,          \* register-unit (fixed) live ranges known to LiveRegMatrix
    nodbgEmpty,     \* last answer of MRI->reg_nodbg_empty per virtual register
    LIS,            \* LiveIntervals: virtual register -> points ({} = none)
    weight,         \* spill weight per live interval
    enqueued,       \* the registers enqueue() was called for
    popped,         \* the registers dequeue() returned, in order
    LRM,            \* LiveRegMatrix: register unit -> virtual registers assigned
    VRM,            \* VirtRegMap: virtual register -> physical register or 0
    cacheValid,     \* interference cache invalidated since the last assign
    sel,            \* the last selectOrSplit call: inputs, scan and result
    spilled,        \* virtual registers handed to SpillerInst
    SplitVirtualRegister  \* line 317: what selectOrSplit reported back, per register

vars == <<pc, virtualRegIdx, LIQ, LI, PhysReg, reserved, fixed, nodbgEmpty,
          LIS, weight, enqueued, popped, LRM, VRM, cacheValid, sel, spilled,
          SplitVirtualRegister>>

\* ------------------------------------------------------------- helpers
RECURSIVE SeqsUpTo(_, _)
SeqsUpTo(S, n) ==
    IF n = 0 THEN {<<>>}
    ELSE LET shorter == SeqsUpTo(S, n - 1)
         IN  shorter \cup {Append(s, x) : s \in {t \in shorter : Len(t) = n - 1}, x \in S}

\* The hint lists TRI->getRegAllocationHints may fill in.
HintLists == SeqsUpTo(PhysRegs, MaxHints)

\* The live ranges LIS->getInterval may hold.
LiveRanges == (SUBSET Points) \ {{}}

Range(s) == {s[i] : i \in DOMAIN s}

\* RCI.getOrder(): the class order without the reserved registers.
getOrder(rsv) == SelectSeq(ClassOrder, LAMBDA p : p \notin rsv)

\* An enqueue that puts the interval at the front of the queue.
push_Front(q, li) == <<li>> \o q

\* An enqueue that pushes the interval twice.
push_Twice(q, li) == Append(Append(q, li), li)

\* std::queue::push / front / pop
push(q, li) == Append(q, li)

front(q) == Head(q)

\* A dequeue that forgets LIQ.pop().
pop_Forgotten(q) == q

pop(q) == Tail(q)

\* LiveRegMatrix::checkInterference(*LI, PhyReg) on the current matrix, by the
\* contract of the interference classification: a reserved register or one
\* with fixed interference is IK_RegUnit (the default case of line 210), one
\* whose units hold an overlapping committed range is IK_VirtReg.
checkInterference(li, p) ==
    IF \/ p \in reserved
       \/ \E u \in RegUnits[p] : fixed[u] \cap LIS[li] # {}
    THEN "IK_RegUnit"
    ELSE IF \E u \in RegUnits[p] : \E w \in LRM[u] : LIS[w] \cap LIS[li] # {}
    THEN "IK_VirtReg"
    ELSE "IK_Free"

\* The class order appended whatever the hint query answered.
AllocationHints_AlwaysOrder(IsHardHint, Hints, Order) == Hints \o Order

\* Lines 183-187: a hard hint keeps the hints alone, otherwise the whole
\* class order is pushed behind them.
AllocationHints(IsHardHint, Hints, Order) ==
    IF ~IsHardHint THEN Hints \o Order ELSE Hints

\* A switch that returns the first register whatever the answer.
IsFreeCase_Always(kind) == TRUE

\* A switch that returns on everything but fixed interference.
IsFreeCase_VirtRegToo(kind) == kind # "IK_RegUnit"

\* The case labels of the switch at lines 199-213.
IsFreeCase(kind) == kind = "IK_Free"

\* A switch that records every register that is not free.
IsVirtRegCase_NotFree(kind) == kind # "IK_Free"

IsVirtRegCase(kind) == kind = "IK_VirtReg"

\* A scan that stops one candidate short of the end of the order.
RECURSIVE Scan_OffByOne(_, _, _, _)
Scan_OffByOne(Hints, i, cands, li) ==
    IF i >= Len(Hints)
    THEN [PhysReg |-> NoRegister, probed |-> Hints,
          PhysRegSpillCandidates |-> cands]
    ELSE LET kind == checkInterference(li, Hints[i])
         IN  IF kind = "IK_Free"
             THEN [PhysReg |-> Hints[i], probed |-> SubSeq(Hints, 1, i),
                   PhysRegSpillCandidates |-> cands]
             ELSE Scan_OffByOne(Hints, i + 1,
                                IF kind = "IK_VirtReg"
                                THEN Append(cands, Hints[i]) ELSE cands, li)

\* A scan that keeps going after a free register and returns the last one.
RECURSIVE Scan_LastFree(_, _, _, _)
Scan_LastFree(Hints, i, cands, li) ==
    IF i > Len(Hints)
    THEN [PhysReg |-> NoRegister, probed |-> Hints,
          PhysRegSpillCandidates |-> cands]
    ELSE LET kind == checkInterference(li, Hints[i])
             rest == Scan_LastFree(Hints, i + 1,
                                   IF kind = "IK_VirtReg"
                                   THEN Append(cands, Hints[i]) ELSE cands, li)
         IN  IF kind = "IK_Free" /\ rest.PhysReg = NoRegister
             THEN [PhysReg |-> Hints[i], probed |-> Hints,
                   PhysRegSpillCandidates |-> cands]
             ELSE rest

\* Lines 196-214 and 224: probe Hints[i..] in order; return at the first
\* free register, collect the registers occupied by virtual registers.
RECURSIVE Scan(_, _, _, _)
Scan(Hints, i, cands, li) ==
    IF i > Len(Hints)
    THEN [PhysReg |-> NoRegister, probed |-> Hints,
          PhysRegSpillCandidates |-> cands]
    ELSE LET kind == checkInterference(li, Hints[i])
         IN  IF IsFreeCase(kind)
             THEN [PhysReg |-> Hints[i], probed |-> SubSeq(Hints, 1, i),
                   PhysRegSpillCandidates |-> cands]
             ELSE IF IsVirtRegCase(kind)
             THEN Scan(Hints, i + 1, Append(cands, Hints[i]), li)
             ELSE Scan(Hints, i + 1, cands, li)

\* selectOrSplit(LI, &SplitVirtRegs) with the hint query answering
\* (hints, IsHardHint).  SplitVirtRegs is never written (TODO at line 222).
selectOrSplit(li, hints, IsHardHint) ==
    LET Order == getOrder(reserved)
        Hints == AllocationHints(IsHardHint, hints, Order)
        r     == Scan(Hints, 1, <<>>, li)
    IN  [vreg |-> li, hints |-> hints, IsHardHint |-> IsHardHint,
         Order |-> Order, Hints |-> Hints, probed |-> r.probed,
         PhysRegSpillCandidates |-> r.PhysRegSpillCandidates,
         PhysReg |-> r.PhysReg, SplitVirtRegs |-> <<>>]

\* An invalidation that leaves the cache as it is.
invalidateVirtRegs_Skipped(valid) == valid

\* LiveRegMatrix::invalidateVirtRegs: cached interference is dropped, the next
\* query reads the matrix as it is now.
invalidateVirtRegs(valid) == TRUE

\* A discard that leaves the interval in place.
removeInterval_Forgotten(lis, v) == lis

\* LiveIntervals::removeInterval
removeInterval(lis, v) == [lis EXCEPT ![v] = {}]

\* An assign that takes the register away from whoever held it.
assignVRM_Evict(vrm, li, p) ==
    [v \in DOMAIN vrm |-> IF v = li THEN p
                           ELSE IF vrm[v] = p THEN NoRegister ELSE vrm[v]]

\* LiveRegMatrix::assign: record in VirtRegMap and in every unit of the register.
assignVRM(vrm, li, p) == [vrm EXCEPT ![li] = p]

assignLRM(lrm, li, p) ==
    [u \in Units |-> IF u \in RegUnits[p] THEN lrm[u] \cup {li} ELSE lrm[u]]

\* ---------------------------------------------------------------- Init
NoSel ==
    [vreg |-> NoLI, hints |-> <<>>, IsHardHint |-> FALSE, Order |-> <<>>,
     Hints |-> <<>>, probed |-> <<>>, PhysRegSpillCandidates |-> <<>>,
     PhysReg |-> NoRegister, SplitVirtRegs |-> <<>>]

ReservedSets == {rsv \in SUBSET PhysRegs : Cardinality(rsv) <= 1}

\* Fixed (physical) live ranges of the register units: none, or the unit of
\* AH live at the first slot.
FixedRanges == {[u \in Units |-> {}], [u \in Units |-> IF u = 2 THEN {1} ELSE {}]}

Init ==
    /\ pc = "enqueue"
    /\ virtualRegIdx = 0
    /\ LIQ = <<>>
    /\ LI = NoLI
    /\ PhysReg = NoRegister
    /\ reserved \in ReservedSets
    /\ fixed \in FixedRanges
    /\ nodbgEmpty = [v \in VirtRegs |-> FALSE]
    /\ LIS = [v \in VirtRegs |-> {}]
    /\ weight \in SpillWeights
    /\ enqueued = {}
    /\ popped = <<>>
    /\ LRM = [u \in Units |-> {}]
    /\ VRM = [v \in VirtRegs |-> NoRegister]
    /\ cacheValid = FALSE
    /\ sel = NoSel
    /\ spilled = {}
    /\ SplitVirtualRegister = [v \in VirtRegs |-> <<>>]

\* ------------------------------------------------------------- actions
AfterEnqueue(idx) == IF idx + 1 < NumVirtRegs THEN "enqueue" ELSE "dequeue"

\* Lines 287-296: the register has only debug uses and is skipped.
SkipDebugOnly ==
    /\ pc = "enqueue"
    /\ virtualRegIdx < NumVirtRegs
    /\ nodbgEmpty' = [nodbgEmpty EXCEPT ![virtualRegIdx] = TRUE]
    /\ virtualRegIdx' = virtualRegIdx + 1
    /\ pc' = AfterEnqueue(virtualRegIdx)
    /\ UNCHANGED <<LIQ, LI, PhysReg, reserved, fixed, LIS, weight, enqueued,
                   LRM, VRM, cacheValid, sel, spilled, SplitVirtualRegister, popped>>

\* Lines 287-299: the register has a non-debug use; its interval is enqueued.
Enqueue ==
    /\ pc = "enqueue"
    /\ virtualRegIdx < NumVirtRegs
    /\ nodbgEmpty' = [nodbgEmpty EXCEPT ![virtualRegIdx] = FALSE]
    /\ \E r \in LiveRanges : LIS' = [LIS EXCEPT ![virtualRegIdx] = r]
    /\ LIQ' = push(LIQ, virtualRegIdx)
    /\ enqueued' = enqueued \cup {virtualRegIdx}
    /\ virtualRegIdx' = virtualRegIdx + 1
    /\ pc' = AfterEnqueue(virtualRegIdx)
    /\ UNCHANGED <<LI, PhysReg, reserved, fixed, weight, LRM, VRM, cacheValid,
                   sel, spilled, SplitVirtualRegister, popped>>

\* Lines 67-76 and 302: pop the front interval; the locals of the loop body
\* (lines 317-318) start afresh.
Dequeue ==
    /\ pc = "dequeue"
    /\ LIQ # <<>>
    /\ LI' = front(LIQ)
    /\ LIQ' = pop(LIQ)
    /\ popped' = Append(popped, front(LIQ))
    /\ PhysReg' = NoRegister
    /\ sel' = NoSel
    /\ pc' = "check"
    /\ UNCHANGED <<virtualRegIdx, reserved, fixed, nodbgEmpty, LIS, weight,
                   enqueued, LRM, VRM, cacheValid, spilled,
                   SplitVirtualRegister>>

\* Lines 68-70, 302 and 326: the queue is empty, the loop and the pass end.
LoopExit ==
    /\ pc = "dequeue"
    /\ LIQ = <<>>
    /\ LI' = NoLI
    /\ pc' = "done"
    /\ UNCHANGED <<virtualRegIdx, LIQ, PhysReg, reserved, fixed, nodbgEmpty,
                   LIS, weight, enqueued, LRM, VRM, cacheValid, sel, spilled,
                   SplitVirtualRegister, popped>>

\* Lines 304-307: the popped register has no non-debug use any more.
Discard ==
    /\ pc = "check"
    /\ nodbgEmpty' = [nodbgEmpty EXCEPT ![LI] = TRUE]
    /\ LIS' = removeInterval(LIS, LI)
    /\ pc' = "dequeue"
    /\ UNCHANGED <<virtualRegIdx, LIQ, LI, PhysReg, reserved, fixed, weight,
                   enqueued, LRM, VRM, cacheValid, sel, spilled,
                   SplitVirtualRegister, popped>>

\* Lines 304 and 314: the register is still used; LRM->invalidateVirtRegs().
Invalidate ==
    /\ pc = "check"
    /\ nodbgEmpty' = [nodbgEmpty EXCEPT ![LI] = FALSE]
    /\ cacheValid' = invalidateVirtRegs(cacheValid)
    /\ pc' = "select"
    /\ UNCHANGED <<virtualRegIdx, LIQ, LI, PhysReg, reserved, fixed, LIS,
                   weight, enqueued, LRM, VRM, sel, spilled,
                   SplitVirtualRegister, popped>>

\* A selectOrSplit that commits the register it found by itself.
Select_Commits ==
    /\ pc = "select"
    /\ \E hints \in HintLists, IsHardHint \in BOOLEAN :
          sel' = selectOrSplit(LI, hints, IsHardHint)
    /\ PhysReg' = sel'.PhysReg
    /\ SplitVirtualRegister' =
          [SplitVirtualRegister EXCEPT ![LI] = sel'.SplitVirtRegs]
    /\ VRM' = IF sel'.PhysReg # NoRegister
              THEN assignVRM(VRM, LI, sel'.PhysReg) ELSE VRM
    /\ LRM' = IF sel'.PhysReg # NoRegister
              THEN assignLRM(LRM, LI, sel'.PhysReg) ELSE LRM
    /\ pc' = "assign"
    /\ UNCHANGED <<virtualRegIdx, LIQ, LI, reserved, fixed, nodbgEmpty, LIS,
                   weight, enqueued, popped, cacheValid, spilled>>

\* Lines 317-318: PhysReg = selectOrSplit(LI, &SplitVirtualRegister).
Select ==
    /\ pc = "select"
    /\ \E hints \in HintLists, IsHardHint \in BOOLEAN :
          sel' = selectOrSplit(LI, hints, IsHardHint)
    /\ PhysReg' = sel'.PhysReg
    /\ SplitVirtualRegister' =
          [SplitVirtualRegister EXCEPT ![LI] = sel'.SplitVirtRegs]
    /\ pc' = "assign"
    /\ UNCHANGED <<virtualRegIdx, LIQ, LI, reserved, fixed, nodbgEmpty, LIS,
                   weight, enqueued, popped, LRM, VRM, cacheValid, spilled>>

\* Lines 321-323: a register was returned; LRM->assign(*LI, PhysReg).
Assign ==
    /\ pc = "assign"
    /\ PhysReg # NoRegister
    /\ VRM' = assignVRM(VRM, LI, PhysReg)
    /\ LRM' = assignLRM(LRM, LI, PhysReg)
    /\ cacheValid' = FALSE
    /\ pc' = "dequeue"
    /\ UNCHANGED <<virtualRegIdx, LIQ, LI, PhysReg, reserved, fixed,
                   nodbgEmpty, LIS, weight, enqueued, sel, spilled,
                   SplitVirtualRegister, popped>>

\* Lines 321-324: selectOrSplit returned 0; the body ends with nothing done.
NoAssign ==
    /\ pc = "assign"
    /\ PhysReg = NoRegister
    /\ pc' = "dequeue"
    /\ UNCHANGED <<virtualRegIdx, LIQ, LI, PhysReg, reserved, fixed,
                   nodbgEmpty, LIS, weight, enqueued, LRM, VRM, cacheValid,
                   sel, spilled, SplitVirtualRegister, popped>>

Next ==
    \/ SkipDebugOnly
    \/ Enqueue
    \/ Dequeue
    \/ LoopExit
    \/ Discard
    \/ Invalidate
    \/ Select
    \/ Assign
    \/ NoAssign

Spec == Init /\ [][Next]_vars

\* The pass is one sequential thread: a step that can be taken is taken.
FairSpec == Spec /\ WF_vars(Next)

TypeOK ==
    /\ pc \in {"enqueue", "dequeue", "check", "select", "assign", "done"}
    /\ virtualRegIdx \in 0 .. NumVirtRegs
    /\ LI \in VirtRegs \cup {NoLI}
    /\ PhysReg \in PhysRegs \cup {NoRegister}
    /\ VRM \in [VirtRegs -> PhysRegs \cup {NoRegister}]
    /\ LRM \in [Units -> SUBSET VirtRegs]
    /\ Range(LIQ) \subseteq VirtRegs

\* ------------------------------------------------------- claim helpers
Assigned(v) == VRM[v] # NoRegister

Overlap(v, w) == LIS[v] \cap LIS[w] # {}

\* The register went through the initial pass with a non-debug use.
Enqueued(v) == v \in enqueued

\* Popped with no non-debug use left: discarded at lines 304-307.
Discarded(v) == Enqueued(v) /\ nodbgEmpty[v]

NoDuplicates(s) == \A i, j \in DOMAIN s : i # j => s[i] # s[j]

IsPrefix(s, t) == Len(s) <= Len(t) /\ SubSeq(t, 1, Len(s)) = s

\* Virtual registers whose committed range makes a spill candidate of the
\* last selectOrSplit call OccupiedByVirtual.
Occupants ==
    {w \in VirtRegs : /\ sel.vreg # NoLI
                      /\ Overlap(w, sel.vreg)
                      /\ \E i \in DOMAIN sel.PhysRegSpillCandidates :
                            \E u \in RegUnits[sel.PhysRegSpillCandidates[i]] :
                               w \in LRM[u]}

\* The loop body of the last popped range has ended without a register.
EndedWithoutRegister ==
    /\ pc \in {"dequeue", "done"}
    /\ sel.vreg # NoLI
    /\ sel.PhysReg = NoRegister

\* ---------------------------------------------------------------- C1
\* C1 (uniqueness): two distinct virtual registers that both hold a committed
\* physical register and whose live ranges overlap hold different registers
\* that share no register unit, and a register is committed only to a range
\* for which checkInterference answers IK_Free at the moment of commit.
C1_Uniqueness ==
    /\ \A v, w \in VirtRegs :
          (v # w /\ Assigned(v) /\ Assigned(w) /\ Overlap(v, w)) =>
             /\ VRM[v] # VRM[w]
             /\ RegUnits[VRM[v]] \cap RegUnits[VRM[w]] = {}
    /\ (pc = "assign" /\ PhysReg # NoRegister) =>
          checkInterference(LI, PhysReg) = "IK_Free"

C1_Witness ==
    \E v, w \in VirtRegs :
       v # w /\ Assigned(v) /\ Assigned(w) /\ Overlap(v, w)

\* ---------------------------------------------------------------- C2
\* C2 (totality modulo failure): when the loop has ended, every virtual
\* register with a non-debug use is exactly one of assigned, handed to the
\* Spiller, or reported back as not allocated.
C2_Totality ==
    pc = "done" =>
       \A v \in VirtRegs :
          (Enqueued(v) /\ ~nodbgEmpty[v]) =>
             \/ Assigned(v) /\ v \notin spilled /\ SplitVirtualRegister[v] = <<>>
             \/ ~Assigned(v) /\ v \in spilled /\ SplitVirtualRegister[v] = <<>>
             \/ ~Assigned(v) /\ v \notin spilled /\ SplitVirtualRegister[v] # <<>>

\* ---------------------------------------------------------------- C3
\* C3 (spill of the cheapest contender): a popped range with no Free
\* candidate whose weight is the lowest among itself and the occupants of
\* its OccupiedByVirtual candidates (here: strictly below every occupant, as
\* v2 of weight 1 below v1 of weight 10) is handed to the Spiller, gets no
\* register, and every occupant keeps its assignment.
C3_SpillCheapest ==
    (/\ EndedWithoutRegister
     /\ Occupants # {}
     /\ \A w \in Occupants : weight[sel.vreg] < weight[w]) =>
       /\ sel.vreg \in spilled
       /\ ~Assigned(sel.vreg)
       /\ \A w \in Occupants : Assigned(w)

\* ---------------------------------------------------------------- C4
\* C4 (eviction with requeue): a popped range with no Free candidate and an
\* occupant of strictly lower weight obtains one of its candidate registers
\* (the occupant having been evicted and requeued).
C4_EvictRequeue ==
    (/\ EndedWithoutRegister
     /\ \E w \in Occupants : weight[w] < weight[sel.vreg]) =>
       /\ Assigned(sel.vreg)
       /\ VRM[sel.vreg] \in Range(sel.PhysRegSpillCandidates)

\* ---------------------------------------------------------------- C5
\* C5 (hard-hint priority): with a hard hint only hinted registers are probed
\* and returned; a Free hinted register wins even when an earlier register of
\* the class order is Free, and with no Free hinted register nothing is
\* returned or committed.
HintedFree ==
    {p \in Range(sel.hints) : checkInterference(LI, p) = "IK_Free"}

C5_HardHint ==
    /\ (pc = "assign" /\ sel.IsHardHint) =>
          /\ Range(sel.probed) \subseteq Range(sel.hints)
          /\ HintedFree # {} => PhysReg \in HintedFree
          /\ HintedFree = {} => PhysReg = NoRegister
    /\ (pc = "dequeue" /\ sel.vreg # NoLI /\ sel.IsHardHint) =>
          VRM[sel.vreg] \in Range(sel.hints) \cup {NoRegister}

\* A hinted register is returned although an earlier register of the class
\* order is free too.
C5_Witness ==
    /\ pc = "assign"
    /\ sel.IsHardHint
    /\ PhysReg # NoRegister
    /\ \E i \in DOMAIN sel.Order :
          /\ sel.Order[i] \notin Range(sel.hints)
          /\ checkInterference(LI, sel.Order[i]) = "IK_Free"
          /\ \E j \in DOMAIN sel.Order : i < j /\ sel.Order[j] = PhysReg

\* ---------------------------------------------------------------- C9
\* C9 (candidate order): for a soft hint the probed registers are the hints in
\* their order followed by the class order without the hinted registers, so
\* no register is probed or collected as a spill candidate twice.
DeduplicatedOrder ==
    sel.hints \o SelectSeq(sel.Order, LAMBDA p : p \notin Range(sel.hints))

C9_CandidateOrder ==
    (pc = "assign" /\ ~sel.IsHardHint) =>
       /\ IsPrefix(sel.probed, DeduplicatedOrder)
       /\ NoDuplicates(sel.probed)
       /\ NoDuplicates(sel.PhysRegSpillCandidates)

\* ---------------------------------------------------------------- C10
\* C10 (first fit): a returned register is the earliest candidate of the
\* order that checkInterference classifies IK_Free, and a register is
\* returned whenever some candidate is IK_Free.
FreeIndexes ==
    {i \in DOMAIN sel.Hints : checkInterference(LI, sel.Hints[i]) = "IK_Free"}

C10_FirstFit ==
    pc = "assign" =>
       /\ PhysReg # NoRegister =>
             \E i \in FreeIndexes :
                /\ sel.Hints[i] = PhysReg
                /\ \A j \in 1 .. (i - 1) : j \notin FreeIndexes
       /\ FreeIndexes # {} => PhysReg # NoRegister

\* The first candidate is not free, and a free candidate other than the
\* returned one comes later in the order.
C10_Witness ==
    /\ pc = "assign"
    /\ PhysReg # NoRegister
    /\ 1 \notin FreeIndexes
    /\ \E j \in FreeIndexes : sel.Hints[j] # PhysReg

\* ---------------------------------------------------------------- C6
\* C6 (termination): the dequeue loop reaches the empty queue and ends; after
\* the initial pass the queue never grows (no range is enqueued again) and
\* every pop makes it one shorter.
C6_Termination ==
    /\ <>(pc = "done")
    /\ [][pc # "enqueue" => Len(LIQ') <= Len(LIQ)]_vars
    /\ [][(pc = "dequeue" /\ pc' = "check") => Len(LIQ') = Len(LIQ) - 1]_vars

\* The run ended with every register enqueued and one of them having lost
\* the contention for a register.
C6_Witness ==
    /\ pc = "done"
    /\ \A v \in VirtRegs : Enqueued(v)
    /\ \E v \in VirtRegs : ~nodbgEmpty[v] /\ ~Assigned(v)

\* ---------------------------------------------------------------- C8
\* C8 (debug-only discard): popping a range whose register has no non-debug
\* use left removes its interval, issues no interference query and commits
\* nothing; a discarded register never holds an assignment.
C8_DebugOnlyDiscard ==
    /\ [][(pc = "check" /\ nodbgEmpty'[LI]) =>
             /\ LIS'[LI] = {}
             /\ pc' = "dequeue"
             /\ UNCHANGED <<sel, PhysReg, VRM, LRM, SplitVirtualRegister>>]_vars
    /\ [](\A v \in VirtRegs :
             Discarded(v) =>
                /\ ~Assigned(v)
                /\ LIS[v] = {}
                /\ \A u \in Units : v \notin LRM[u])

C8_Witness ==
    /\ pc = "done"
    /\ \E v, w \in VirtRegs : Discarded(v) /\ Assigned(w) /\ v < w

\* ---------------------------------------------------------------- C11
\* C11 (initial enqueue and processing order): the initial pass enqueues
\* exactly the registers with a non-debug use, in ascending index order, and
\* the FIFO queue hands them out in that order: the ranges popped so far
\* followed by the queue are the enqueued registers in ascending order, so a
\* register is worked on only after every enqueued register of lower index.
StrictlyAscending(s) == \A i, j \in DOMAIN s : i < j => s[i] < s[j]

C11_EnqueueOrder ==
    /\ StrictlyAscending(popped \o LIQ)
    /\ Range(popped \o LIQ) = enqueued
    /\ pc = "enqueue" =>
          /\ popped = <<>>
          /\ enqueued = {v \in 0 .. (virtualRegIdx - 1) : ~nodbgEmpty[v]}
    /\ pc # "enqueue" => virtualRegIdx = NumVirtRegs
    /\ \A i, j \in enqueued :
          (i < j /\ j \in Range(popped)) => (i \in Range(popped) /\ i # LI)

\* The second enqueued register is being decided after the first one got
\* its register.
C11_Witness ==
    /\ pc = "select"
    /\ Len(popped) >= 2
    /\ LI = popped[2]
    /\ Assigned(popped[1])

\* ---------------------------------------------------------------- C12
\* C12 (worklist without duplicates): a live range occurs at most once in
\* the queue, and no range that holds a committed register is in the queue.
C12_NoDuplicates ==
    /\ NoDuplicates(LIQ)
    /\ \A v \in Range(LIQ) : ~Assigned(v)

\* A range waits in the queue while another one holds a register.
C12_Witness ==
    /\ LIQ # <<>>
    /\ \E v \in VirtRegs : Assigned(v)

\* ---------------------------------------------------------------- C13
\* C13 (no stale interference cache): whenever selectOrSplit is about to
\* query checkInterference, invalidateVirtRegs has run since the last
\* LRM->assign; an assign leaves the cache stale until the next invalidation.
C13_NoStaleCache ==
    /\ pc \in {"select", "assign"} => cacheValid
    /\ (pc = "dequeue" /\ sel.vreg # NoLI /\ sel.PhysReg # NoRegister) =>
          ~cacheValid

\* A query is about to be made after an earlier commit.
C13_Witness ==
    /\ pc = "select"
    /\ cacheValid
    /\ \E v \in VirtRegs : Assigned(v)

\* ---------------------------------------------------------------- C14
\* C14 (selectOrSplit has no side effects): the call of selectOrSplit leaves
\* the assignment map, the queue and the matrix as they are; the assignment
\* map changes only in the commit step of the loop, and only by giving the
\* popped register the register selectOrSplit returned.
C14_SelectNoSideEffects ==
    /\ [][pc = "select" => UNCHANGED <<VRM, LRM, LIQ, spilled>>]_vars
    /\ [][VRM' # VRM =>
             /\ pc = "assign"
             /\ sel.vreg = LI
             /\ sel.PhysReg # NoRegister
             /\ VRM' = [VRM EXCEPT ![LI] = sel.PhysReg]]_vars
    /\ [][LRM' # LRM => (pc = "assign" /\ VRM' # VRM)]_vars

\* selectOrSplit returned a register and the loop committed it.
C14_Witness ==
    /\ pc = "dequeue"
    /\ sel.vreg # NoLI
    /\ sel.PhysReg # NoRegister
    /\ VRM[sel.vreg] = sel.PhysReg
    /\ \E v \in VirtRegs : v # sel.vreg /\ Assigned(v)

\* ---------------------------------------------------------------- C15
\* C15 (spill-candidate collection): when selectOrSplit finds no Free
\* candidate it has probed the whole order, and the registers it recorded as
\* spill candidates are exactly the candidates classified IK_VirtReg: the
\* scan goes on after the first of them, and a candidate with fixed or
\* reserved interference is never recorded.
OccupiedByVirtual ==
    {p \in Range(sel.Hints) : checkInterference(LI, p) = "IK_VirtReg"}

C15_SpillCandidates ==
    (pc = "assign" /\ PhysReg = NoRegister) =>
       /\ sel.probed = sel.Hints
       /\ Range(sel.PhysRegSpillCandidates) = OccupiedByVirtual
       /\ \A p \in Range(sel.PhysRegSpillCandidates) :
             checkInterference(LI, p) # "IK_RegUnit"

\* Two different registers were recorded and a candidate with fixed or
\* reserved interference was passed over.
C15_Witness ==
    /\ pc = "assign"
    /\ PhysReg = NoRegister
    /\ Cardinality(Range(sel.PhysRegSpillCandidates)) >= 2
    /\ \E p \in Range(sel.Hints) : checkInterference(LI, p) = "IK_RegUnit"

\* ---------------------------------------------------------------- C16
\* C16 (reserved registers are never allocated): no virtual register holds a
\* register of the reserved set, also when a reserved register is among the
\* (soft or hard) hints; the class order names no reserved register.
C16_ReservedNeverAllocated ==
    /\ \A v \in VirtRegs : VRM[v] \notin reserved
    /\ PhysReg \notin reserved
    /\ Range(sel.Order) \cap reserved = {}

\* A reserved register was hinted and the range got another register.
C16_Witness ==
    /\ pc = "dequeue"
    /\ sel.vreg # NoLI
    /\ Range(sel.hints) \cap reserved # {}
    /\ Assigned(sel.vreg)

\* ---------------------------------------------------------------- C17
\* C17 (monotone assignments, every range decided once): after the initial
\* pass the queue only loses its front element, so when the loop ends every
\* enqueued range was popped exactly once and the loop ran once per enqueued
\* range; a committed register is never changed or taken away again, whatever
\* the spill weights of the ranges popped later.
C17_DecidedOnce ==
    /\ [][pc # "enqueue" => (LIQ' = LIQ \/ LIQ' = Tail(LIQ))]_vars
    /\ [][\A v \in VirtRegs : Assigned(v) => VRM'[v] = VRM[v]]_vars
    /\ [](NoDuplicates(popped))
    /\ [](pc = "done" =>
            /\ Range(popped) = enqueued
            /\ Len(popped) = Cardinality(enqueued))

\* The run ended with a heavier range left without a register next to the
\* lighter, earlier one that kept its register.
C17_Witness ==
    /\ pc = "done"
    /\ \E v, w \in enqueued :
          /\ v < w
          /\ Assigned(v)
          /\ ~nodbgEmpty[w] /\ ~Assigned(w)
          /\ weight[v] < weight[w]

\* ---------------------------------------------------------------- C18
\* C18 (unassigned exactly when nothing was free): selectOrSplit returns no
\* register for the popped range if and only if no candidate of its order
\* (the hints, and the class order unless the hint is hard) is IK_Free; the
\* loop body then ends with the range neither assigned nor handed to the
\* Spiller, and it stays so to the end of the run; an assignment is only ever
\* made to a register of the order probed for that range.
CandidateOrder ==
    IF sel.IsHardHint THEN sel.hints ELSE sel.hints \o sel.Order

C18_UnassignedIffNoneFree ==
    /\ [](pc = "assign" =>
            /\ sel.Hints = CandidateOrder
            /\ (PhysReg = NoRegister) <=>
                  (\A p \in Range(CandidateOrder) :
                      checkInterference(LI, p) # "IK_Free"))
    /\ [][pc = "assign" =>
             /\ VRM'[LI] = PhysReg
             /\ LI \notin spilled']_vars
    /\ [][\A v \in VirtRegs :
             (VRM'[v] # NoRegister /\ ~Assigned(v)) =>
                /\ v = LI /\ pc = "assign"
                /\ VRM'[v] \in Range(CandidateOrder)]_vars
    /\ [][\A v \in Range(popped) :
             (v # LI /\ ~Assigned(v)) => (VRM'[v] = NoRegister /\ v \notin spilled')]_vars
    /\ [](pc = "done" =>
            \A v \in enqueued : ~Assigned(v) => v \notin spilled)

\* The loop body ended for a register that has a non-debug use and was left
\* without a physical register, a free register outside its hard hint
\* notwithstanding.
C18_Witness ==
    /\ pc = "dequeue"
    /\ sel.vreg # NoLI
    /\ sel.IsHardHint
    /\ sel.PhysReg = NoRegister
    /\ ~nodbgEmpty[sel.vreg]
    /\ ~Assigned(sel.vreg)
    /\ sel.vreg \notin spilled
    /\ \E p \in Range(sel.Order) : checkInterference(sel.vreg, p) = "IK_Free"

====
